---- MODULE Spec2Model ----
(***************************************************************************)
(* Model of the cook_county extract-and-transform code: utils.py (Fetcher  *)
(* and column normalizers), sales.py (sales pipeline and cache loader) and *)
(* locations.py (locations pipeline).                                      *)
(*                                                                         *)
(* A table cell is a tagged record: [int |-> numeral], [str |-> chars],    *)
(* [bool |-> b], [date |-> d] or the null NA.  A string is a sequence of   *)
(* one-character strings, so that zero-filling, dash-stripping and parsing *)
(* are computed character by character.  An integer is held as its decimal *)
(* numeral (an optional "-", then digits without leading zeros), so that a *)
(* 14-digit parcel identifier fits.  A column (Series) is a record of its  *)
(* dtype, its values and, for a categorical, its category sequence and     *)
(* ordered flag.                                                           *)
(***************************************************************************)
EXTENDS Integers, Sequences, FiniteSets, TLC

VARIABLES fn, zw, orig, prev, col, applied,
          rawFile, artifact, last

colVars == <<fn, zw, orig, prev, col, applied>>
ioVars == <<rawFile, artifact, last>>
vars == <<fn, zw, orig, prev, col, applied, rawFile, artifact, last>>

(***************************************************************************)
(* Bounds of the model.                                                    *)
(***************************************************************************)
MaxRows == 3
MaxIdRows == 2
MaxApply == 2
MaxPow == 3
MaxPinLen == 2

(***************************************************************************)
(* Cells and strings.                                                      *)
(***************************************************************************)
IsInt(c) == DOMAIN c = {"int"}
IsStr(c) == DOMAIN c = {"str"}
IsBool(c) == DOMAIN c = {"bool"}
IsDate(c) == DOMAIN c = {"date"}
IsNA(c) == DOMAIN c = {"na"}

\* The characters the model uses, in code-point order.
Alphabet == <<"-", "0", "1", "2", "3", "4", "5", "6", "7", "8", "9",
              "O", "T", "W", "X", "Y", "_",
              "a", "b", "c", "d", "e", "f", "g", "h", "i", "j", "k", "l", "m",
              "n", "o", "p", "q", "r", "s", "t", "u", "v", "w", "x", "y", "z">>
Ord(c) == CHOOSE i \in DOMAIN Alphabet : Alphabet[i] = c
DigitChars == <<"0", "1", "2", "3", "4", "5", "6", "7", "8", "9">>
IsDigit(c) == \E i \in DOMAIN DigitChars : DigitChars[i] = c
RECURSIVE Pow10(_)
Pow10(k) == IF k = 0 THEN 1 ELSE 10 * Pow10(k - 1)

RECURSIVE Zeros(_)
Zeros(k) == IF k <= 0 THEN <<>> ELSE <<"0">> \o Zeros(k - 1)

\* str(n) of a Python int: its decimal digits, with a leading "-" if negative.
RECURSIVE Digits(_)
Digits(n) == IF n < 10 THEN <<DigitChars[n + 1]>>
             ELSE Append(Digits(n \div 10), DigitChars[(n % 10) + 1])
IntToStr(n) == IF n < 0 THEN <<"-">> \o Digits(0 - n) ELSE Digits(n)

\* int(s) of a Python str of digits with an optional sign, as a numeral:
\* the leading zeros go, and so does the sign of zero.
RECURSIVE StripZeros(_)
StripZeros(s) == IF Len(s) > 1 /\ s[1] = "0" THEN StripZeros(Tail(s)) ELSE s
IsIntLiteral(s) ==
    LET body == IF Len(s) > 0 /\ s[1] = "-" THEN Tail(s) ELSE s
    IN Len(body) > 0 /\ \A i \in DOMAIN body : IsDigit(body[i])
PyInt(s) ==
    IF s[1] = "-"
    THEN (IF StripZeros(Tail(s)) = <<"0">> THEN <<"0">> ELSE <<"-">> \o StripZeros(Tail(s)))
    ELSE StripZeros(s)

I(n) == [int |-> IntToStr(n)]
S(s) == [str |-> s]
B(b) == [bool |-> b]
D(d) == [date |-> d]
NA == [na |-> TRUE]

\* str.zfill(width): pads on the left with zeros, after a leading sign; a
\* string already of that width or longer is returned as it is.
PyZfill(s, width) ==
    IF Len(s) >= width THEN s
    ELSE IF Len(s) > 0 /\ s[1] = "-"
         THEN <<"-">> \o Zeros(width - Len(s)) \o Tail(s)
         ELSE Zeros(width - Len(s)) \o s

\* str.replace(old, "") for a one-character old.
RECURSIVE PyRemoveChar(_, _)
PyRemoveChar(s, ch) ==
    IF Len(s) = 0 THEN <<>>
    ELSE IF s[1] = ch THEN PyRemoveChar(Tail(s), ch)
         ELSE <<s[1]>> \o PyRemoveChar(Tail(s), ch)

\* Python's < on two strings: lexicographic on code points.
RECURSIVE StrLess(_, _)
StrLess(a, b) ==
    IF Len(b) = 0 THEN FALSE
    ELSE IF Len(a) = 0 THEN TRUE
    ELSE IF a[1] = b[1] THEN StrLess(Tail(a), Tail(b))
    ELSE Ord(a[1]) < Ord(b[1])

\* Python's == and < between cell values: 1 == True and 0 == False.
AsNumber(c) == IF IsBool(c) THEN (IF c.bool THEN <<"1">> ELSE <<"0">>) ELSE c.int
MagLess(a, b) == Len(a) < Len(b) \/ (Len(a) = Len(b) /\ StrLess(a, b))
NumLess(a, b) ==
    IF a[1] = "-" /\ b[1] = "-" THEN MagLess(Tail(b), Tail(a))
    ELSE IF a[1] = "-" THEN TRUE
    ELSE IF b[1] = "-" THEN FALSE
    ELSE MagLess(a, b)
PyEq(a, b) ==
    IF (IsInt(a) \/ IsBool(a)) /\ (IsInt(b) \/ IsBool(b)) THEN AsNumber(a) = AsNumber(b)
    ELSE IF IsNA(a) \/ IsNA(b) THEN FALSE
    ELSE a = b

CellLess(a, b) ==
    IF IsStr(a) /\ IsStr(b) THEN StrLess(a.str, b.str)
    ELSE IF IsDate(a) /\ IsDate(b) THEN a.date < b.date
    ELSE NumLess(AsNumber(a), AsNumber(b))

SameKind(a, b) ==
    \/ IsStr(a) /\ IsStr(b)
    \/ IsDate(a) /\ IsDate(b)
    \/ (IsInt(a) \/ IsBool(a)) /\ (IsInt(b) \/ IsBool(b))

(***************************************************************************)
(* Sequences helpers.                                                      *)
(***************************************************************************)
Range(s) == {s[i] : i \in DOMAIN s}
SeqsUpTo(X, n) == UNION {[1..k -> X] : k \in 1..n}

\* The values of s in order of first appearance.
RECURSIVE UniqueSeq(_)
UniqueSeq(s) ==
    IF Len(s) = 0 THEN <<>>
    ELSE LET init == UniqueSeq(SubSeq(s, 1, Len(s) - 1))
             x == s[Len(s)]
         IN IF x \in Range(init) THEN init ELSE Append(init, x)

RECURSIVE InsertSorted(_, _)
InsertSorted(s, x) ==
    IF Len(s) = 0 THEN <<x>>
    ELSE IF CellLess(x, s[1]) THEN <<x>> \o s
         ELSE <<s[1]>> \o InsertSorted(Tail(s), x)

RECURSIVE SortCells(_)
SortCells(s) == IF Len(s) = 0 THEN <<>>
                ELSE InsertSorted(SortCells(Tail(s)), s[1])

SelectNotNA(s) == SelectSeq(s, LAMBDA c : ~IsNA(c))

(***************************************************************************)
(* Columns (pandas Series).                                                *)
(***************************************************************************)
Col(dtype, vals, cats, ordered) ==
    [dtype |-> dtype, vals |-> vals, cats |-> cats, ordered |-> ordered]
Err(name) == [err |-> name]
IsErr(x) == "err" \in DOMAIN x

\* The dtype pandas gives a column of these values when it builds it from
\* parsed text or from the result of an element-wise map.
InferDtype(vals) ==
    IF \A i \in DOMAIN vals : IsInt(vals[i]) THEN "int64"
    ELSE IF \A i \in DOMAIN vals : IsInt(vals[i]) \/ IsNA(vals[i]) THEN "float64"
    ELSE IF \A i \in DOMAIN vals : IsBool(vals[i]) THEN "bool"
    ELSE IF \A i \in DOMAIN vals : IsDate(vals[i]) \/ IsNA(vals[i]) THEN "datetime64"
    ELSE "object"
PlainCol(vals) == Col(InferDtype(vals), vals, <<>>, FALSE)

\* x in series.unique(): some observed value equals x.
PyIn(x, vals) == \E i \in DOMAIN vals : PyEq(vals[i], x)

\* dict lookup; a dict is a sequence of <<key, value>> pairs in insertion order.
DictHas(dict, k) == \E i \in DOMAIN dict : PyEq(dict[i][1], k)
DictGet(dict, k) == dict[CHOOSE i \in DOMAIN dict : PyEq(dict[i][1], k)][2]
DictValues(dict) == [i \in DOMAIN dict |-> dict[i][2]]

\* Series.map(dict): a value that is no key of the dict becomes null.
SeriesMap(series, dict) ==
    PlainCol([i \in DOMAIN series.vals |->
                IF DictHas(dict, series.vals[i]) THEN DictGet(dict, series.vals[i])
                ELSE NA])

\* astype("category"): the categories are the distinct non-null values, sorted
\* when they are comparable and in order of appearance otherwise; a column that
\* is categorical already is returned as it is.
AstypeCategory(series) ==
    IF series.dtype = "category" THEN series
    ELSE LET u == UniqueSeq(SelectNotNA(series.vals))
             sortable == \A i, j \in DOMAIN u : SameKind(u[i], u[j])
         IN Col("category", series.vals, IF sortable THEN SortCells(u) ELSE u, FALSE)

\* astype(CategoricalDtype(categories, ordered)): a value outside the categories
\* becomes null.
AstypeCategoricalDtype(series, categories, ordered) ==
    Col("category",
        [i \in DOMAIN series.vals |->
            IF series.vals[i] \in Range(categories) THEN series.vals[i] ELSE NA],
        categories, ordered)

\* astype("Int64"): integers and nulls are kept, a string of digits is parsed,
\* any other value cannot be cast.
AstypeInt64(series) ==
    IF \E i \in DOMAIN series.vals :
          LET c == series.vals[i]
          IN ~(IsInt(c) \/ IsBool(c) \/ IsNA(c) \/ (IsStr(c) /\ IsIntLiteral(c.str)))
    THEN Err("ValueError")
    ELSE Col("Int64",
             [i \in DOMAIN series.vals |->
                LET c == series.vals[i]
                IN IF IsNA(c) THEN NA
                   ELSE IF IsStr(c) THEN [int |-> PyInt(c.str)]
                   ELSE [int |-> AsNumber(c)]],
             <<>>, FALSE)

\* astype("string"): each non-null value becomes its str(), which for an
\* integer is its decimal numeral.
AstypeString(series) ==
    IF IsErr(series) THEN series
    ELSE Col("string",
             [i \in DOMAIN series.vals |->
                LET c == series.vals[i]
                IN IF IsNA(c) THEN NA ELSE S(c.int)],
             <<>>, FALSE)

\* .str.zfill(width)
StrZfill(series, width) ==
    IF IsErr(series) THEN series
    ELSE [series EXCEPT !.vals =
             [i \in DOMAIN series.vals |->
                LET c == series.vals[i]
                IN IF IsNA(c) THEN NA ELSE S(PyZfill(c.str, width))]]

AstypeCategoryOrErr(series) == IF IsErr(series) THEN series ELSE AstypeCategory(series)

\* The normalization without the padding.
standardize_without_zfill(series, zerofill) ==
    AstypeCategoryOrErr(AstypeString(AstypeInt64(series)))

\* zerofill is an Optional[int]: {} is None, {w} is the width w.
standardize_mistakenly_int_parsed_categorical_series(series, zerofill) ==
    IF zerofill # {}
    THEN AstypeCategoryOrErr(
             StrZfill(AstypeString(AstypeInt64(series)), CHOOSE w \in zerofill : TRUE))
    ELSE AstypeCategoryOrErr(AstypeString(AstypeInt64(series)))

\* Section 4.2 of the specification, "Zero-fill identifier normalization":
\* nullable integer, then string, then left-padded with zeros, then category.
standardize_and_zerofill_intlike_values_to_str(series, zerofill) ==
    AstypeCategoryOrErr(StrZfill(AstypeString(AstypeInt64(series)), zerofill))

is_bool_dtype(series) == series.dtype \in {"bool", "boolean"}

map_column_to_boolean_values(series, true_values) ==
    LET true_mask == [i \in DOMAIN series.vals |-> PyIn(series.vals[i], true_values)]
        set_false == [i \in DOMAIN series.vals |->
                        IF ~true_mask[i] THEN B(FALSE) ELSE series.vals[i]]
        set_true == [i \in DOMAIN series.vals |->
                        IF true_mask[i] THEN B(TRUE) ELSE set_false[i]]
    IN IF is_bool_dtype(series) THEN series
       ELSE Col("boolean", set_true, <<>>, FALSE)

\* .str.replace("-", "", 1): only the first dash goes.
StrReplaceFirstDash(series) ==
    IF series.dtype \notin {"object", "string"} THEN Err("AttributeError")
    ELSE Col("object",
             [i \in DOMAIN series.vals |->
                LET c == series.vals[i]
                    dashes == {k \in DOMAIN c.str : c.str[k] = "-"}
                    k1 == CHOOSE k \in dashes : \A m \in dashes : k <= m
                IN IF ~IsStr(c) THEN NA
                   ELSE IF dashes = {} THEN c
                   ELSE S(SubSeq(c.str, 1, k1 - 1) \o SubSeq(c.str, k1 + 1, Len(c.str)))],
             <<>>, FALSE)

\* .str.replace("-", ""): the accessor exists only on a column of strings; an
\* element that is no string becomes null.
StrReplaceDash(series) ==
    IF series.dtype \notin {"object", "string"} THEN Err("AttributeError")
    ELSE Col("object",
             [i \in DOMAIN series.vals |->
                LET c == series.vals[i]
                IN IF IsStr(c) THEN S(PyRemoveChar(c.str, "-")) ELSE NA],
             <<>>, FALSE)

(***************************************************************************)
(* Code-to-label remapping (sales.py, locations.py), on the column.        *)
(***************************************************************************)
L_no == <<"n", "o">>
L_yes == <<"y", "e", "s">>
L_unknown == <<"u", "n", "k", "n", "o", "w", "n">>
L_Warranty == <<"W", "a", "r", "r", "a", "n", "t", "y">>
L_Other == <<"O", "t", "h", "e", "r">>
L_Trustee == <<"T", "r", "u", "s", "t", "e", "e">>
L_risk_decreasing ==
    <<"r", "i", "s", "k", "_", "d", "e", "c", "r", "e", "a", "s", "i", "n", "g">>
L_risk_stationary ==
    <<"r", "i", "s", "k", "_", "s", "t", "a", "t", "i", "o", "n", "a", "r", "y">>
L_risk_increasing ==
    <<"r", "i", "s", "k", "_", "i", "n", "c", "r", "e", "a", "s", "i", "n", "g">>

arms_length_map ==
    << <<I(0), S(L_no)>>, <<I(1), S(L_yes)>>, <<I(9), S(L_unknown)>> >>

deed_type_map ==
    << <<S(<<"W">>), S(L_Warranty)>>, <<S(<<"O">>), S(L_Other)>>,
       <<S(<<"o">>), S(L_Other)>>, <<S(<<"T">>), S(L_Trustee)>>,
       <<S(<<"Y">>), S(L_Trustee)>> >>

flood_risk_map ==
    << <<I(0 - 1), S(L_risk_decreasing)>>, <<I(0), S(L_risk_stationary)>>,
       <<I(1), S(L_risk_increasing)>> >>

\* any([cat not in series.unique() for cat in categories])
SomeLabelAbsent(series, categories) ==
    \E i \in DOMAIN categories : ~PyIn(categories[i], series.vals)

\* arms_length_column typed with the listed labels as the categories, in the
\* order of the list.
arms_length_column_listed(series) ==
    LET categories == DictValues(arms_length_map)
        mapped == IF SomeLabelAbsent(series, categories)
                  THEN SeriesMap(series, arms_length_map) ELSE series
    IN AstypeCategoricalDtype(mapped, categories, FALSE)

arms_length_column(series) ==
    LET categories == DictValues(arms_length_map)
        mapped == IF SomeLabelAbsent(series, categories)
                  THEN SeriesMap(series, arms_length_map) ELSE series
    IN AstypeCategory(mapped)

deed_type_column(series) ==
    LET categories == DictValues(deed_type_map)
        mapped == IF SomeLabelAbsent(series, categories)
                  THEN SeriesMap(series, deed_type_map) ELSE series
    IN AstypeCategory(mapped)

fs_flood_risk_direction_column(series) ==
    LET categories == DictValues(flood_risk_map)
        mapped == IF SomeLabelAbsent(series, categories)
                  THEN SeriesMap(series, flood_risk_map) ELSE series
    IN AstypeCategoricalDtype(mapped, categories, TRUE)

(***************************************************************************)
(* Date parsing and inferred-order categorical typing (utils.py).          *)
(* A date string cell is [dstr |-> k, day |-> d]: the day d written in the *)
(* pipeline's format ("fmt"), in another format pandas can infer ("other") *)
(* or a string that is no date ("bad").                                    *)
(***************************************************************************)
DS(k, d) == [dstr |-> k, day |-> d]
IsDateStr(c) == DOMAIN c = {"dstr", "day"}

ParsesWith(series, kinds) ==
    \A i \in DOMAIN series.vals :
        \/ IsNA(series.vals[i])
        \/ IsDateStr(series.vals[i]) /\ series.vals[i].dstr \in kinds
ToDatetime(series) ==
    Col("datetime64",
        [i \in DOMAIN series.vals |->
            IF IsNA(series.vals[i]) THEN NA ELSE D(series.vals[i].day)],
        <<>>, FALSE)

\* dt_format is an Optional[str]: {} is None.
typeset_datetime_column(dt_series, dt_format) ==
    IF dt_series.dtype = "datetime64" THEN dt_series
    ELSE IF dt_format # {} /\ ParsesWith(dt_series, {"fmt"}) THEN ToDatetime(dt_series)
    ELSE IF ParsesWith(dt_series, {"fmt", "other"}) THEN ToDatetime(dt_series)
    ELSE Err("ValueError")

\* utils.py never imports CategoricalDtype, so the name lookup on the last
\* line of the function raises; list.sort() before it raises on values that
\* cannot be compared.
typeset_ordered_categorical_feature(series) ==
    LET series_categories == UniqueSeq(series.vals)
    IN IF \E i, j \in DOMAIN series_categories :
              ~IsNA(series_categories[i]) /\ ~IsNA(series_categories[j])
              /\ ~SameKind(series_categories[i], series_categories[j])
       THEN Err("TypeError")
       ELSE Err("NameError")

(***************************************************************************)
(* Tables (DataFrames): a function from column names to columns.  Every    *)
(* statement of a pipeline is df[name] = f(df[name]) for one column, so a  *)
(* pipeline is the sequence of its statements <<step, name, width>> in     *)
(* source order, run until one raises.  A run is the record                *)
(*   [ok, df, err, log]                                                    *)
(* where df is the frame as mutated in place so far, log the statements    *)
(* begun, in order as <<step, column>>, and err the exception that ended   *)
(* the run.                                                                *)
(***************************************************************************)
SalesDateFormat == {"%m/%d/%Y %I:%M:%S %p"}
FloodFactorCategories == [i \in 1..10 |-> I(i)]

SetMin(X) == CHOOSE x \in X : \A y \in X : x <= y
SetMax(X) == CHOOSE x \in X : \A y \in X : x >= y

\* The column function each pipeline statement calls; width is the zerofill
\* of the zero-fill statement and unused by the others.
Normalize(step, series, width) ==
    CASE step = "preprocess_pin_numbers" -> StrReplaceDash(series)
      [] step = "transform_date_columns" ->
            typeset_datetime_column(series, SalesDateFormat)
      [] step = "preprocess_property_sales_arms_length_values" ->
            arms_length_column(series)
      [] step = "preprocess_property_sales_deed_type_values" ->
            deed_type_column(series)
      [] step = "typeset_ordered_categorical_feature" ->
            typeset_ordered_categorical_feature(series)
      [] step = "standardize_and_zerofill_intlike_values_to_str" ->
            standardize_and_zerofill_intlike_values_to_str(series, width)
      [] step = "typeset_simple_boolean_columns" ->
            map_column_to_boolean_values(series, <<I(1)>>)
      [] step = "typeset_simple_category_columns" -> AstypeCategory(series)
      [] step = "typeset_ordered_categorical_fs_flood_factor_feature" ->
            AstypeCategoricalDtype(series, FloodFactorCategories, TRUE)
      [] step = "typeset_ordered_categorical_fs_flood_risk_direction_feature" ->
            fs_flood_risk_direction_column(series)

\* StopAt of a runner that catches every exception and goes on.
StopAtNever(failing, n) == n + 1

\* The statement at which a run stops: the first one that raises, since no
\* statement is wrapped in a handler; n + 1 when none raises.
StopAt(failing, n) == IF failing = {} THEN n + 1 ELSE SetMin(failing)

RunSteps(df, steps) ==
    LET n == Len(steps)
        \* what statement i assigns, were every statement before it to succeed:
        \* a missing column is a KeyError, and an exception stays one.
        out[i \in 1..n] ==
            LET name == steps[i][2]
                earlier == {j \in 1..(i - 1) : steps[j][2] = name}
                arg == IF earlier = {} THEN df[name] ELSE out[SetMax(earlier)]
            IN IF name \notin DOMAIN df THEN Err("KeyError")
               ELSE IF IsErr(arg) THEN arg
               ELSE Normalize(steps[i][1], arg, steps[i][3])
        stop == StopAt({i \in 1..n : IsErr(out[i])}, n)
        begun == IF stop > n THEN n ELSE stop
    IN [ok |-> stop > n,
        err |-> IF stop > n THEN "" ELSE out[stop].err,
        log |-> [i \in 1..begun |-> <<steps[i][1], steps[i][2]>>],
        df |-> [c \in DOMAIN df |->
                  LET done == {j \in 1..(stop - 1) : j <= n /\ steps[j][2] = c}
                  IN IF done = {} THEN df[c] ELSE out[SetMax(done)]]]

\* "_".join(col.lower().split(" ")) on the column names the model uses.
StdName(name) ==
    CASE name = "PIN" -> "pin"
      [] name = "Recorded Date" -> "recorded_date"
      [] name = "Executed Date" -> "executed_date"
      [] name = "Arms Length" -> "arms_length"
      [] name = "Deed Type" -> "deed_type"
      [] name = "Year" -> "year"
      [] OTHER -> name

standardize_column_names(df) ==
    [n \in {StdName(c) : c \in DOMAIN df} |->
        df[CHOOSE c \in DOMAIN df : StdName(c) = n]]

StepsOver(step, names, width) == [i \in DOMAIN names |-> <<step, names[i], width>>]

preprocess_pin_numbers == << <<"preprocess_pin_numbers", "pin", 0>> >>

transform_date_columns(date_cols) == StepsOver("transform_date_columns", date_cols, 0)

preprocess_property_sales_arms_length_values ==
    << <<"preprocess_property_sales_arms_length_values", "arms_length", 0>> >>

preprocess_property_sales_deed_type_values ==
    << <<"preprocess_property_sales_deed_type_values", "deed_type", 0>> >>

SalesSteps ==
    preprocess_pin_numbers
    \o transform_date_columns(<<"recorded_date", "executed_date">>)
    \o preprocess_property_sales_arms_length_values
    \o preprocess_property_sales_deed_type_values
    \o << <<"typeset_ordered_categorical_feature", "year", 0>> >>

WithLogFirst(run, entry) == [run EXCEPT !.log = <<entry>> \o run.log]

transform_cook_county_property_sales(df) ==
    WithLogFirst(RunSteps(standardize_column_names(df), SalesSteps),
                 <<"standardize_column_names", "columns">>)

(***************************************************************************)
(* The locations pipeline (locations.py).                                  *)
(***************************************************************************)
ZerofillStep(name, width) ==
    <<"standardize_and_zerofill_intlike_values_to_str", name, width>>

standardize_and_zerofill_intlike_cook_county_property_location_columns ==
    <<ZerofillStep("pin", 14), ZerofillStep("puma", 4), ZerofillStep("nbhd", 3),
      ZerofillStep("reps_dist", 2), ZerofillStep("senate_dist", 2),
      ZerofillStep("tif_agencynum", 2), ZerofillStep("township", 2),
      ZerofillStep("ward", 2)>>

LocationBooleanColumns ==
    <<"withinmr100", "withinmr101300", "ohare_noise", "floodplain",
      "indicator_has_address", "indicator_has_latlon">>

typeset_simple_boolean_columns(boolean_columns) ==
    StepsOver("typeset_simple_boolean_columns", boolean_columns, 0)

LocationCategoryColumns ==
    <<"commissioner_dist", "senate_dist", "township_name", "township", "puma",
      "ward", "ssa_no", "ssa_name", "reps_dist", "mailing_state",
      "school_hs_district", "municipality", "municipality_fips", "property_city",
      "nbhd", "tif_agencynum", "school_elem_district", "tract_geoid",
      "mailing_city", "mailing_zip", "property_zip">>

typeset_simple_category_columns(category_columns) ==
    StepsOver("typeset_simple_category_columns", category_columns, 0)

typeset_ordered_categorical_fs_flood_factor_feature ==
    << <<"typeset_ordered_categorical_fs_flood_factor_feature", "fs_flood_factor", 0>> >>

typeset_ordered_categorical_fs_flood_risk_direction_feature ==
    << <<"typeset_ordered_categorical_fs_flood_risk_direction_feature",
         "fs_flood_risk_direction", 0>> >>

LocationSteps ==
    standardize_and_zerofill_intlike_cook_county_property_location_columns
    \o typeset_simple_boolean_columns(LocationBooleanColumns)
    \o typeset_simple_category_columns(LocationCategoryColumns)
    \o typeset_ordered_categorical_fs_flood_factor_feature
    \o typeset_ordered_categorical_fs_flood_risk_direction_feature

transform_cook_county_property_locations(df) == RunSteps(df, LocationSteps)

(***************************************************************************)
(* Files, the Fetcher (utils.py) and the sales loaders (sales.py).         *)
(* A file is [exists |-> FALSE] or [exists |-> TRUE, content |-> c]; the   *)
(* content of a raw file is a CSV table or bytes that do not parse.  What  *)
(* the URL does when asked is an input of the call: it serves a content,   *)
(* refuses the connection, or breaks off after part of the body.           *)
(***************************************************************************)
NoFile == [exists |-> FALSE]
FileOf(content) == [exists |-> TRUE, content |-> content]
Csv(df) == [kind |-> "csv", df |-> df]
Garbage == [kind |-> "garbage"]
Parquet(df) == [kind |-> "parquet", df |-> df]
None == [none |-> TRUE]

\* urlretrieve that removes the destination when the download fails.
urlretrieve_or_remove(file, served) ==
    IF served.status = "ok" THEN [file |-> FileOf(served.content), err |-> ""]
    ELSE [file |-> NoFile, err |-> served.status]

\* urlretrieve(url, file_path): the file is opened for writing once the
\* connection is up, so a refused connection leaves it alone and a short body
\* leaves what arrived.
urlretrieve(file, served) ==
    CASE served.status = "ok" -> [file |-> FileOf(served.content), err |-> ""]
      [] served.status = "URLError" -> [file |-> file, err |-> "URLError"]
      [] served.status = "ContentTooShortError" ->
            [file |-> FileOf(served.content), err |-> "ContentTooShortError"]

read_csv(file) ==
    IF ~file.exists THEN Err("FileNotFoundError")
    ELSE IF file.content.kind = "csv" THEN file.content.df
    ELSE Err("ParserError")

read_geo_file(file) ==
    IF ~file.exists THEN Err("DriverError")
    ELSE IF file.content.kind = "csv" THEN [geo |-> file.content.df]
    ELSE Err("DriverError")

\* NeedsDownload with the flag left out: only a missing file is downloaded.
NeedsDownloadIfMissing(file, force_repull) == ~file.exists

\* not os.path.isfile(file_path) or force_repull
NeedsDownload(file, force_repull) == ~file.exists \/ force_repull

\* The result of a call: the file afterwards, the effects in order, and either
\* the value returned or the exception raised.
Outcome(file, log, err, returned) ==
    [file |-> file, log |-> log, ok |-> err = "", err |-> err, returned |-> returned]

ParseStep(file, log, step, parsed) ==
    IF IsErr(parsed) THEN Outcome(file, Append(log, step), parsed.err, None)
    ELSE Outcome(file, Append(log, step), "", parsed)

extract_file_from_url(file, served, data_format, force_repull, return_df) ==
    LET log0 == << <<"makedirs", "raw">> >>
        pull == NeedsDownload(file, force_repull)
        got == IF pull THEN urlretrieve(file, served) ELSE [file |-> file, err |-> ""]
        log1 == IF pull THEN Append(log0, <<"urlretrieve", "raw">>) ELSE log0
    IN IF got.err # "" THEN Outcome(got.file, log1, got.err, None)
       ELSE IF ~return_df THEN Outcome(got.file, log1, "", None)
       ELSE IF data_format \in {"csv", "zipped_csv"}
            THEN ParseStep(got.file, log1, <<"read_csv", "raw">>, read_csv(got.file))
       ELSE IF data_format \in {"shp", "geojson"}
            THEN ParseStep(got.file, log1, <<"read_file", "raw">>, read_geo_file(got.file))
       ELSE Outcome(got.file, log1, "", None)

extract_csv_from_url(file, served, force_repull, return_df) ==
    LET log0 == << <<"makedirs", "raw">> >>
        pull == NeedsDownload(file, force_repull)
        got == IF pull THEN urlretrieve(file, served) ELSE [file |-> file, err |-> ""]
        log1 == IF pull THEN Append(log0, <<"urlretrieve", "raw">>) ELSE log0
    IN IF got.err # "" THEN Outcome(got.file, log1, got.err, None)
       ELSE IF ~return_df THEN Outcome(got.file, log1, "", None)
       ELSE ParseStep(got.file, log1, <<"read_csv", "raw">>, read_csv(got.file))

load_raw_cook_county_property_sales(file, served, force_repull) ==
    extract_file_from_url(file, served, "csv", force_repull, TRUE)

\* NeedsRemake with the artifact check left out: every call rebuilds.
NeedsRemakeAlways(art, force_remake) == TRUE

\* not os.path.isfile(file_path) or force_remake
NeedsRemake(art, force_remake) == ~art.exists \/ force_remake

\* to_parquet(path): writes the table, or fails (disk = FALSE) leaving the
\* artifact as it was.
to_parquet(df, art, disk) ==
    IF disk THEN [file |-> FileOf(Parquet(df)), err |-> ""]
    ELSE [file |-> art, err |-> "OSError"]

\* The result of a loader call: both files afterwards, the effects in order,
\* the value returned or the exception raised, and the frame the call worked
\* on (mutated in place) when it built one.
LoaderOutcome(raw, art, log, err, returned, frame) ==
    [file |-> raw, art |-> art, log |-> log, ok |-> err = "", err |-> err,
     returned |-> returned, frame |-> frame]

\* property_sales_df.to_parquet(path=file_path, compression="gzip"); return
Persisted(pulled, run, put) ==
    LoaderOutcome(pulled.file, put.file,
                  Append(pulled.log \o run.log, <<"to_parquet", "artifact">>),
                  put.err, IF put.err = "" THEN run.df ELSE None, run.df)

\* The transformer has run: its exception ends the call, and otherwise the
\* table is written and returned.
Transformed(pulled, run, art, disk) ==
    IF ~run.ok
    THEN LoaderOutcome(pulled.file, art, pulled.log \o run.log, run.err, None, run.df)
    ELSE Persisted(pulled, run, to_parquet(run.df, art, disk))

\* The Fetcher has run: its exception ends the call, and otherwise the
\* transformer runs on the table it returned.
Pulled(pulled, art, disk) ==
    IF ~pulled.ok
    THEN LoaderOutcome(pulled.file, art, pulled.log, pulled.err, None, None)
    ELSE Transformed(pulled, transform_cook_county_property_sales(pulled.returned),
                     art, disk)

load_preprocessed_cook_county_property_sales(raw, art, served, disk, force_repull, force_remake) ==
    IF NeedsRemake(art, force_remake)
    THEN Pulled(load_raw_cook_county_property_sales(raw, served, force_repull),
                art, disk)
    ELSE LoaderOutcome(raw, art, << <<"read_parquet", "artifact">> >>, "",
                       art.content.df, None)

(***************************************************************************)
(* Spec: calls of the Fetcher, of the sales cache loader and of the        *)
(* locations pipeline, in any order and with any arguments, against the    *)
(* two files of the sales dataset.                                         *)
(***************************************************************************)
RawSalesNames ==
    {"PIN", "Recorded Date", "Executed Date", "Arms Length", "Deed Type", "Year"}

\* A table of the given rows (each a function from column names to cells)
\* as read_csv builds it.
TableOf(names, rows) ==
    [n \in names |-> PlainCol([i \in DOMAIN rows |-> rows[i][n]])]
WithCell(row, name, cell) == [row EXCEPT ![name] = cell]
Without(df, name) == [n \in (DOMAIN df) \ {name} |-> df[n]]

Pin1 == <<"0", "1", "-", "0", "2", "-", "3", "0", "0", "-", "0", "0", "4", "-",
          "0", "0", "0", "0">>
Pin2 == <<"1", "2", "-", "3", "4", "-", "5", "6", "7", "-", "8", "9", "0", "-",
          "0", "0", "0", "0">>
SaleRow1 ==
    [n \in RawSalesNames |->
        CASE n = "PIN" -> S(Pin1)
          [] n = "Recorded Date" -> DS("fmt", 1)
          [] n = "Executed Date" -> DS("fmt", 2)
          [] n = "Arms Length" -> I(1)
          [] n = "Deed Type" -> S(<<"W">>)
          [] n = "Year" -> I(2019)]
SaleRow2 ==
    [n \in RawSalesNames |->
        CASE n = "PIN" -> S(Pin2)
          [] n = "Recorded Date" -> DS("fmt", 2)
          [] n = "Executed Date" -> NA
          [] n = "Arms Length" -> I(0)
          [] n = "Deed Type" -> S(<<"T">>)
          [] n = "Year" -> I(2020)]

GoodSalesTables ==
    {TableOf(RawSalesNames, <<SaleRow1, SaleRow2>>), TableOf(RawSalesNames, <<SaleRow2>>)}

\* Tables that are not what the portal publishes: a parcel identifier parsed
\* as a number, a date in another format, a string that is no date, a year
\* that is no number, a column that is not there.
OddSalesTables ==
    {TableOf(RawSalesNames,
             <<WithCell(SaleRow1, "PIN", [int |-> PyInt(PyRemoveChar(Pin1, "-"))])>>)}
    \cup {TableOf(RawSalesNames, <<WithCell(SaleRow1, "Recorded Date", DS("other", 1))>>),
          TableOf(RawSalesNames, <<WithCell(SaleRow1, "Executed Date", DS("bad", 0))>>),
          TableOf(RawSalesNames, <<SaleRow1, WithCell(SaleRow2, "Year", S(<<"X">>))>>)}
    \cup {Without(TableOf(RawSalesNames, <<SaleRow1>>), n) : n \in {"PIN", "Deed Type"}}

SalesTables == GoodSalesTables \cup OddSalesTables
RawContents == {Csv(t) : t \in SalesTables} \cup {Garbage}

\* What the URL can do on one request.  A body that breaks off leaves bytes
\* that do not parse, or a table cut after its first row.
Served ==
    {[status |-> "ok", content |-> c] : c \in RawContents}
    \cup {[status |-> "URLError"]}
    \cup {[status |-> "ContentTooShortError", content |-> c] :
            c \in {Garbage, Csv(TableOf(RawSalesNames, <<SaleRow1>>))}}

\* A table the artifact can hold: a sales table with every column typed.
TypedSales(df) ==
    LET run == RunSteps(standardize_column_names(df), SubSeq(SalesSteps, 1, 5))
        year == run.df["year"]
    IN [run.df EXCEPT !["year"] =
          AstypeCategoricalDtype(year, SortCells(UniqueSeq(year.vals)), TRUE)]
StoredTables == {TypedSales(t) : t \in GoodSalesTables}

DataFormats == {"csv", "zipped_csv", "shp", "geojson", "json"}

LocationIdColumns ==
    {"puma", "nbhd", "reps_dist", "senate_dist", "tif_agencynum", "township", "ward"}
LocationNames ==
    {"pin", "fs_flood_factor", "fs_flood_risk_direction"}
    \cup LocationIdColumns \cup Range(LocationBooleanColumns)
    \cup Range(LocationCategoryColumns)
LocationRow(pin, code, flag, factor, direction) ==
    [n \in LocationNames |->
        CASE n = "pin" -> pin
          [] n \in LocationIdColumns -> code
          [] n \in Range(LocationBooleanColumns) -> flag
          [] n = "fs_flood_factor" -> factor
          [] n = "fs_flood_risk_direction" -> direction
          [] OTHER -> S(<<"X">>)]
LocationPins ==
    {I(0), I(7), [int |-> PyInt(PyRemoveChar(Pin1, "-"))],
     [int |-> PyInt(PyRemoveChar(Pin2, "-"))], [int |-> <<"1">> \o Zeros(14)],
     I(0 - 5), NA}
GoodLocationRow == LocationRow(I(7), I(5), I(1), I(3), I(1))
\* Location tables with a column missing, and with codes that are no numbers.
OddLocationTables ==
    {Without(TableOf(LocationNames, <<GoodLocationRow>>), n) :
        n \in {"pin", "ward", "floodplain", "mailing_zip", "fs_flood_factor"}}
    \cup {TableOf(LocationNames, <<LocationRow(I(7), S(<<"X">>), I(1), I(3), I(1))>>)}
FewLocationTables ==
    {TableOf(LocationNames, <<GoodLocationRow>>)} \cup OddLocationTables

\* The last call: what it was given, whether each file existed when it began,
\* the effects in order, the value returned or the exception raised, and the
\* frame it worked on (mutated in place) when it built one.
Result(log, err, returned, frame) ==
    [log |-> log, ok |-> err = "", err |-> err, returned |-> returned, frame |-> frame]
NoCall ==
    [op |-> "none", args |-> None, rawExisted |-> FALSE, artExisted |-> FALSE,
     input |-> None, res |-> Result(<<>>, "", None, None)]
Call(op, args, input, res) ==
    [op |-> op, args |-> args, rawExisted |-> rawFile.exists,
     artExisted |-> artifact.exists, input |-> input, res |-> res]

NoColumn ==
    /\ fn = "none"
    /\ zw = {}
    /\ orig = None
    /\ prev = None
    /\ col = None
    /\ applied = 0

Init ==
    /\ rawFile \in {NoFile} \cup {FileOf(Csv(t)) : t \in GoodSalesTables}
    /\ artifact \in {NoFile} \cup {FileOf(Parquet(t)) : t \in StoredTables}
    /\ last = NoCall
    /\ NoColumn

\* extract_file_from_url(file_path, url, data_format, force_repull, return_df)
FetchFile ==
    \E served \in Served, data_format \in DataFormats,
       force_repull \in BOOLEAN, return_df \in BOOLEAN :
        \E r \in {extract_file_from_url(rawFile, served, data_format, force_repull, return_df)} :
           /\ rawFile' = r.file
           /\ last' = Call("extract_file_from_url",
                           [data_format |-> data_format, force_repull |-> force_repull,
                            return_df |-> return_df],
                           None, Result(r.log, r.err, r.returned, None))
           /\ UNCHANGED artifact
           /\ UNCHANGED colVars

\* extract_csv_from_url(file_path, url, force_repull, return_df)
FetchCsv ==
    \E served \in Served, force_repull \in BOOLEAN, return_df \in BOOLEAN :
        \E r \in {extract_csv_from_url(rawFile, served, force_repull, return_df)} :
           /\ rawFile' = r.file
           /\ last' = Call("extract_csv_from_url",
                           [data_format |-> "csv", force_repull |-> force_repull,
                            return_df |-> return_df],
                           None, Result(r.log, r.err, r.returned, None))
           /\ UNCHANGED artifact
           /\ UNCHANGED colVars

\* load_preprocessed_cook_county_property_sales(root_dir, force_repull, force_remake)
LoadPreprocessed ==
    \E served \in Served, disk \in BOOLEAN,
       force_repull \in BOOLEAN, force_remake \in BOOLEAN :
        \E r \in {load_preprocessed_cook_county_property_sales(
                      rawFile, artifact, served, disk, force_repull, force_remake)} :
           /\ rawFile' = r.file
           /\ artifact' = r.art
           /\ last' = Call("load_preprocessed_cook_county_property_sales",
                           [force_repull |-> force_repull, force_remake |-> force_remake],
                           None, Result(r.log, r.err, r.returned, r.frame))
           /\ UNCHANGED colVars

\* The record of a call of a pipeline that ended as run.
PipelineCall(op, df, run) ==
    Call(op, None, df, Result(run.log, run.err, IF run.ok THEN run.df ELSE None, run.df))

\* transform_cook_county_property_locations(df)
LocationsCall(df) ==
    /\ last' = PipelineCall("transform_cook_county_property_locations", df,
                            transform_cook_county_property_locations(df))
    /\ UNCHANGED <<rawFile, artifact>>
    /\ UNCHANGED colVars

\* transform_cook_county_property_sales(df)
SalesCall(df) ==
    /\ last' = PipelineCall("transform_cook_county_property_sales", df,
                            transform_cook_county_property_sales(df))
    /\ UNCHANGED <<rawFile, artifact>>
    /\ UNCHANGED colVars

TransformLocations == \E df \in FewLocationTables : LocationsCall(df)

Next ==
    \/ FetchFile
    \/ FetchCsv
    \/ LoadPreprocessed
    \/ TransformLocations

Spec == Init /\ [][Next]_vars

(***************************************************************************)
(* SpecPipes: the two pipelines called on tables drawn from wider sets of  *)
(* parcel identifiers.                                                     *)
(***************************************************************************)
PinChars == {"0", "7", "-"}
ShortPins == {S(p) : p \in SeqsUpTo(PinChars, MaxPinLen)} \cup {NA}
PinSalesTables ==
    SalesTables
    \cup {TableOf(RawSalesNames, <<SaleRow2, WithCell(SaleRow1, "PIN", p)>>) :
            p \in ShortPins}
PinLocationTables ==
    OddLocationTables
    \cup {TableOf(LocationNames,
                  <<LocationRow(p, code, I(1), I(3), I(1)),
                    LocationRow(q, I(5), NA, I(11), I(2))>>) :
            p \in LocationPins, q \in LocationPins, code \in {I(123), NA}}

InitPipes ==
    /\ rawFile = NoFile
    /\ artifact = NoFile
    /\ last = NoCall
    /\ NoColumn

TransformSalesPins == \E df \in PinSalesTables : SalesCall(df)
TransformLocationsPins == \E df \in PinLocationTables : LocationsCall(df)

NextPipes ==
    \/ TransformSalesPins
    \/ TransformLocationsPins

SpecPipes == InitPipes /\ [][NextPipes]_vars

(***************************************************************************)
(* SpecCols: one column normalizer applied, and re-applied, to a column    *)
(* drawn from a bounded set of inputs.                                     *)
(***************************************************************************)
BoolCells == {I(0), I(1), I(2), NA, B(TRUE), B(FALSE)}
BoolExample == <<I(1), I(0), NA, I(1)>>
BoolInputs == {PlainCol(v) : v \in SeqsUpTo(BoolCells, MaxRows) \cup {BoolExample}}

ArmsCells == {I(0), I(1), I(9), I(5), NA}
ArmsInputs == {PlainCol(v) : v \in SeqsUpTo(ArmsCells, MaxRows)}

DeedCells == {S(<<"W">>), S(<<"O">>), S(<<"o">>), S(<<"T">>), S(<<"Y">>), S(<<"X">>), NA}
DeedInputs == {PlainCol(v) : v \in SeqsUpTo(DeedCells, MaxRows)}

FloodCells == {I(0 - 1), I(0), I(1), I(2), NA}
FloodInputs == {PlainCol(v) : v \in SeqsUpTo(FloodCells, MaxRows)}

ZfInts == {0, 0 - 5} \cup {d * Pow10(k) : d \in {1, 7}, k \in 0..MaxPow}
ZfCells == {I(n) : n \in ZfInts} \cup {NA}
ZfInputs == {PlainCol(v) : v \in SeqsUpTo(ZfCells, MaxIdRows)}
\* The widths the locations pipeline passes, and None.
ZfWidths == {{14}, {4}, {3}, {2}, {}}

FnNames == {"bool", "arms_length", "deed_type", "flood_risk", "zerofill"}
FnInputs(f) ==
    CASE f = "bool" -> BoolInputs
      [] f = "arms_length" -> ArmsInputs
      [] f = "deed_type" -> DeedInputs
      [] f = "flood_risk" -> FloodInputs
      [] f = "zerofill" -> ZfInputs

InitIO ==
    /\ rawFile = NoFile
    /\ artifact = NoFile
    /\ last = NoCall

InitCols ==
    /\ fn \in FnNames
    /\ zw \in IF fn = "zerofill" THEN ZfWidths ELSE {{}}
    /\ orig \in FnInputs(fn)
    /\ prev = orig
    /\ col = orig
    /\ applied = 0
    /\ InitIO

Step(f, result) ==
    /\ fn = f
    /\ applied < MaxApply
    /\ ~IsErr(col)
    /\ prev' = col
    /\ col' = result
    /\ applied' = applied + 1
    /\ UNCHANGED <<fn, zw, orig>>
    /\ UNCHANGED ioVars

ApplyBoolean == Step("bool", map_column_to_boolean_values(col, <<I(1)>>))
ApplyArmsLength == Step("arms_length", arms_length_column(col))
ApplyDeedType == Step("deed_type", deed_type_column(col))
ApplyFloodRisk == Step("flood_risk", fs_flood_risk_direction_column(col))
ApplyZerofill ==
    Step("zerofill", standardize_mistakenly_int_parsed_categorical_series(col, zw))

NextCols ==
    \/ ApplyBoolean
    \/ ApplyArmsLength
    \/ ApplyDeedType
    \/ ApplyFloodRisk
    \/ ApplyZerofill

SpecCols == InitCols /\ [][NextCols]_vars
(***************************************************************************)
(* Properties of the Fetcher and of the cache loader, under Spec.  The     *)
(* record of the last call is read in the state after the call; what a     *)
(* call did to the files is read over the step that is the call.           *)
(***************************************************************************)
LoaderOp == "load_preprocessed_cook_county_property_sales"
FetcherOps == {"extract_file_from_url", "extract_csv_from_url"}
PipelineOps ==
    {"transform_cook_county_property_sales", "transform_cook_county_property_locations"}
Effects(log) == {log[i][1] : i \in DOMAIN log}
ReadParquetOnly == << <<"read_parquet", "artifact">> >>
DownloadErrors == {"URLError", "ContentTooShortError"}
HoldsGoodSales(file) ==
    file.exists /\ file.content \in {Csv(t) : t \in GoodSalesTables}

\* C1: for every value of force_repull, a cache loader call made while the
\* artifact exists and with force_remake false does nothing but read the
\* artifact: no download, no Fetcher, no transformer, both files left as they
\* were, and the table returned is the one the artifact holds.
C1_ArtifactHitOnlyReadsArtifact ==
    [][(/\ last'.op = LoaderOp
        /\ artifact.exists
        /\ ~last'.args.force_remake)
       => /\ last'.res.log = ReadParquetOnly
          /\ rawFile' = rawFile
          /\ artifact' = artifact
          /\ last'.res.ok
          /\ last'.res.returned = artifact.content.df]_vars

\* A cache hit with force_repull true and no raw file at all.
C1_Witness ==
    /\ last.op = LoaderOp
    /\ last.artExisted
    /\ ~last.args.force_remake
    /\ last.args.force_repull
    /\ ~last.rawExisted
    /\ last.res.log = ReadParquetOnly
    /\ last.res.returned \in StoredTables
    /\ ~rawFile.exists

\* C2: the two flags are independent layers.  (a) force_repull alone with the
\* artifact present: no download.  (b) force_remake alone with a well-formed
\* raw file present: no download, and the artifact is rewritten from that
\* file.  (c) both flags and a well-formed table downloaded: the raw file is
\* downloaded and the artifact is rewritten from it.
C2_FlagsAreIndependentLayers ==
    last.op = LoaderOp =>
        /\ (last.args.force_repull /\ ~last.args.force_remake /\ last.artExisted)
              => "urlretrieve" \notin Effects(last.res.log)
        /\ (/\ last.args.force_remake
            /\ ~last.args.force_repull
            /\ last.rawExisted
            /\ HoldsGoodSales(rawFile))
              => /\ "urlretrieve" \notin Effects(last.res.log)
                 /\ "to_parquet" \in Effects(last.res.log)
        /\ (/\ last.args.force_remake
            /\ last.args.force_repull
            /\ last.res.err \notin DownloadErrors
            /\ HoldsGoodSales(rawFile))
              => /\ "urlretrieve" \in Effects(last.res.log)
                 /\ "to_parquet" \in Effects(last.res.log)

\* C3: a Fetcher call downloads if and only if the destination file does not
\* exist or force_repull is true; without a download the file is left as it
\* was; a parse comes after the download; and what is parsed is the file as it
\* is after the (possible) download, so the existing file when none was made.
C3_DownloadIffMissingOrForced ==
    [][last'.op \in FetcherOps =>
         LET args == last'.args
             res == last'.res
             log == last'.res.log
             parses == {"read_csv", "read_file"}
             parsed == IF args.data_format \in {"csv", "zipped_csv"}
                       THEN read_csv(rawFile') ELSE read_geo_file(rawFile')
         IN /\ ("urlretrieve" \in Effects(log)) <=> (~rawFile.exists \/ args.force_repull)
            /\ "urlretrieve" \notin Effects(log) => rawFile' = rawFile
            /\ \A i, j \in DOMAIN log :
                  (log[i][1] = "urlretrieve" /\ log[j][1] \in parses) => i < j
            /\ (/\ args.return_df
                /\ args.data_format \in {"csv", "zipped_csv", "shp", "geojson"}
                /\ res.err \notin DownloadErrors)
                  => /\ Effects(log) \cap parses # {}
                     /\ IF IsErr(parsed) THEN res.err = parsed.err
                        ELSE res.ok /\ res.returned = parsed
            /\ (~args.return_df \/ res.err \in DownloadErrors)
                  => Effects(log) \cap parses = {}]_vars

\* A call that found the file, was not told to pull again, and parsed it.
C3_Witness ==
    /\ last.op \in FetcherOps
    /\ last.rawExisted
    /\ ~last.args.force_repull
    /\ last.args.return_df
    /\ last.res.log = << <<"makedirs", "raw">>, <<"read_csv", "raw">> >>
    /\ last.res.ok
    /\ rawFile.exists
    /\ last.res.returned = rawFile.content.df

\* C9: a call that fails returns no table and raises the error of the stage
\* that failed, which is the last stage it began; no stage is begun twice;
\* the artifact is written by no call that failed earlier, and a pipeline
\* leaves the columns of its later stages as they were given.  A call that
\* does return a table returns one whose every column was computed.
C9_FailureAbortsWithoutResult ==
    [][last'.op # "none" =>
         LET op == last'.op
             res == last'.res
             log == last'.res.log
             final == log[Len(log)][1]
         IN /\ ~res.ok =>
                 /\ res.returned = None
                 /\ res.err # ""
                 /\ \A i, j \in DOMAIN log : i # j => log[i] # log[j]
                 /\ final = "urlretrieve" <=> res.err \in DownloadErrors
                 /\ final \in {"read_csv", "read_file"}
                       <=> res.err \in {"ParserError", "DriverError"}
                 /\ "to_parquet" \in Effects(log) => final = "to_parquet"
                 /\ "to_parquet" \notin Effects(log) => artifact' = artifact
                 /\ op = "transform_cook_county_property_locations" =>
                       \A c \in DOMAIN last'.input :
                          (\A j \in 1..(Len(log) - 1) : LocationSteps[j][2] # c)
                             => res.frame[c] = last'.input[c]
            /\ res.returned # None =>
                 /\ res.ok
                 /\ \A c \in DOMAIN res.returned : ~IsErr(res.returned[c])
            /\ (res.ok /\ op \in PipelineOps \cup {LoaderOp}) => res.returned # None]_vars

\* A rebuild that downloaded and parsed the raw file and then failed in the
\* transformer, with an artifact on disk.
C9_Witness ==
    /\ last.op = LoaderOp
    /\ ~last.res.ok
    /\ last.res.err = "NameError"
    /\ "urlretrieve" \in Effects(last.res.log)
    /\ "read_csv" \in Effects(last.res.log)
    /\ last.res.log[Len(last.res.log)][1] = "typeset_ordered_categorical_feature"
    /\ last.artExisted
    /\ last.res.returned = None

\* C10: no call deletes the raw file or the artifact; after a cache loader
\* call that returns, the artifact exists, and a cache loader call that finds
\* the artifact and has force_remake false downloads nothing and transforms
\* nothing; the raw file exists after a call that got as far as parsing it,
\* and after a Fetcher call that returns.
C10_CacheFilesAreNeverDeleted ==
    [][/\ rawFile.exists => rawFile'.exists
       /\ artifact.exists => artifact'.exists
       /\ last'.op = LoaderOp =>
            /\ last'.res.ok => artifact'.exists
            /\ (artifact.exists /\ ~last'.args.force_remake)
                  => Effects(last'.res.log) = {"read_parquet"}
            /\ "read_csv" \in Effects(last'.res.log) => rawFile'.exists
       /\ (last'.op \in FetcherOps /\ last'.res.ok) => rawFile'.exists]_vars

\* A cache loader call that returned while there is no raw file: the artifact
\* alone served it.
C10_Witness ==
    /\ last.op = LoaderOp
    /\ last.res.ok
    /\ artifact.exists
    /\ ~rawFile.exists
    /\ "urlretrieve" \notin Effects(last.res.log)

(***************************************************************************)
(* Properties of the column normalizers, under SpecCols: orig is the       *)
(* column given, col the column after `applied` applications, prev the     *)
(* column before the last of them.                                         *)
(***************************************************************************)
Remaps == {"arms_length", "deed_type", "flood_risk"}
Width == CHOOSE w \in zw : TRUE
Longer(a, b) == IF a >= b THEN a ELSE b
IsDigits(s) == \A i \in DOMAIN s : IsDigit(s[i])
Ascending(cats) ==
    \A i, j \in DOMAIN cats : i < j => StrLess(cats[i].str, cats[j].str)

\* C4: with the true-set {1}, a column that is not boolean already comes out
\* tri-state: a value in the true-set is true, a null stays null, any other
\* value is false.
C4_BooleanIsTriState ==
    (fn = "bool" /\ applied = 1 /\ ~is_bool_dtype(orig)) =>
        /\ ~IsErr(col)
        /\ DOMAIN col.vals = DOMAIN orig.vals
        /\ \A i \in DOMAIN orig.vals :
              col.vals[i] = IF PyIn(orig.vals[i], <<I(1)>>) THEN B(TRUE)
                            ELSE IF IsNA(orig.vals[i]) THEN NA
                            ELSE B(FALSE)

\* C5: each of the three remaps applied twice gives the column it gives
\* applied once.
C5_RemapTwiceIsRemapOnce ==
    (fn \in Remaps /\ applied = 2) => col = prev

\* C6 as the specification states it: the codes 0, 1, 9 become "no", "yes",
\* "unknown", and the category sequence of the column is that list in its
\* order.
C6_CategoriesInListOrder ==
    (/\ fn = "arms_length"
     /\ applied = 1
     /\ \A code \in {I(0), I(1), I(9)} : PyIn(code, orig.vals))
    => /\ col.dtype = "category"
       /\ col.cats = DictValues(arms_length_map)

\* C6: the codes 0, 1, 9 become "no", "yes", "unknown" and any other value
\* null; the column is an unordered category whose categories are the labels
\* that occur in it, in ascending lexicographic order (no, unknown, yes).
C6_CategoriesSortedLabelsPresent ==
    (fn = "arms_length" /\ applied = 1) =>
        /\ col.dtype = "category"
        /\ ~col.ordered
        /\ DOMAIN col.vals = DOMAIN orig.vals
        /\ \A i \in DOMAIN orig.vals :
              col.vals[i] = IF PyEq(orig.vals[i], I(0)) THEN S(L_no)
                            ELSE IF PyEq(orig.vals[i], I(1)) THEN S(L_yes)
                            ELSE IF PyEq(orig.vals[i], I(9)) THEN S(L_unknown)
                            ELSE NA
        /\ Range(col.cats) = Range(col.vals) \ {NA}
        /\ Ascending(col.cats)
        /\ (\A code \in {I(0), I(1), I(9)} : PyIn(code, orig.vals))
              => col.cats = <<S(L_no), S(L_unknown), S(L_yes)>>

\* A column holding all three codes, remapped.
C6_Witness ==
    /\ fn = "arms_length"
    /\ applied = 1
    /\ orig.vals = <<I(9), I(0), I(1)>>
    /\ col.vals = <<S(L_unknown), S(L_no), S(L_yes)>>
    /\ col.cats = <<S(L_no), S(L_unknown), S(L_yes)>>

\* C7 as the specification states it: every non-null value of the output is
\* a string of exactly w characters.
C7_ExactlyWidthCharacters ==
    (fn = "zerofill" /\ zw # {} /\ applied >= 1 /\ ~IsErr(col)) =>
        \A i \in DOMAIN col.vals :
           ~IsNA(col.vals[i]) => Len(col.vals[i].str) = Width

\* C7: with width w, an integer becomes its decimal numeral left-padded with
\* zeros (after the sign) to w characters, and is left at its own length when
\* that is w or more: exactly w characters when the numeral has at most w, and
\* the padded string reads back as the integer.  A null stays null and is no
\* member of the categories, which are the strings that occur.  Applied to its
\* own output with the same w, the normalization returns it unchanged.
C7_PaddedToAtLeastWidth ==
    (fn = "zerofill" /\ zw # {} /\ applied >= 1) =>
        /\ ~IsErr(col)
        /\ col.dtype = "category"
        /\ DOMAIN col.vals = DOMAIN orig.vals
        /\ \A i \in DOMAIN orig.vals :
              IF IsNA(orig.vals[i]) THEN IsNA(col.vals[i])
              ELSE /\ IsStr(col.vals[i])
                   /\ Len(col.vals[i].str) = Longer(Width, Len(orig.vals[i].int))
                   /\ PyInt(col.vals[i].str) = orig.vals[i].int
                   /\ IsDigits(IF col.vals[i].str[1] = "-"
                               THEN Tail(col.vals[i].str) ELSE col.vals[i].str)
        /\ Range(col.cats) = Range(col.vals) \ {NA}
        /\ applied = 2 => col = prev

\* Width 2 applied twice to a column of a four-digit number and a null.
C7_Witness ==
    /\ fn = "zerofill"
    /\ zw = {2}
    /\ applied = 2
    /\ orig.vals = <<I(1000), NA>>
    /\ col.vals = <<S(<<"1", "0", "0", "0">>), NA>>
    /\ col = prev

(***************************************************************************)
(* Properties of the parcel identifier column, under SpecPipes.            *)
(***************************************************************************)
SalesOp == "transform_cook_county_property_sales"
LocationsOp == "transform_cook_county_property_locations"
\* The pipeline's statement that assigns the pin column has completed.
PinStepDone ==
    /\ last.op \in PipelineOps
    /\ \E i \in DOMAIN last.res.log :
          /\ last.res.log[i][2] = "pin"
          /\ (i < Len(last.res.log) \/ last.res.ok)
PinIn == IF last.op = SalesOp THEN last.input["PIN"].vals ELSE last.input["pin"].vals
PinOut == last.res.frame["pin"].vals

====
